---------------------------- MODULE Spec2Model ----------------------------
(***************************************************************************)
(* A model of src/functions/pollQueue.js: the queue poller of              *)
(* watchdog-proxy.  Several poller instances (one per Lambda container)    *)
(* share one lock record in the config table; each instance runs the       *)
(* handler: acquire the execution mutex, send a heartbeat, poll the queue  *)
(* under a sliding-window rate limit until the time budget is used up,     *)
(* release the mutex, send a final heartbeat.                              *)
(*                                                                         *)
(* Time is a global clock `now`.  One model time unit stands for half a    *)
(* second, so the source's division by 1000 (milliseconds per second) is   *)
(* a division by MillisPerSecond = 2, and the configuration values of      *)
(* lib/constants are scaled to the same unit.  Every awaited call is two   *)
(* steps, its issue and its settlement, and the clock may advance between  *)
(* any two steps.  Every step reads the clock once.                        *)
(*                                                                         *)
(* There are two specifications of the same actions.  Spec runs both       *)
(* instances and keeps the histories of the lock (overrun) and of the      *)
(* rate-limit hits (hitLog).  SpecObserved runs one instance alone, again  *)
(* and again in its container, and records its run in three more history   *)
(* variables (steps, calls, attempted); in Spec these three stay as they   *)
(* start, since no instance is observed.                                   *)
(***************************************************************************)
EXTENDS Integers, Sequences, FiniteSets

----------------------------------------------------------------------------
(* Bounds of the model *)

\* the clock stops advancing here
MaxTime == 4
\* the Lambda timeout: getRemainingTimeInMillis() at the start of a run
TimeoutMillis == 4

\* the poller instances (Lambda containers) that may run the handler
Procs == {"p1", "p2"}

----------------------------------------------------------------------------
(* Configuration: ../lib/constants, in model time units *)

MillisPerSecond == 2
POLL_DELAY == 0
MAX_LONG_POLL_PERIOD == 2
RATE_PERIOD == 2
RATE_LIMIT == 2
EXECUTION_MUTEX_TTL == 3
MIN_HEARTBEAT_PERIOD == 1

----------------------------------------------------------------------------
VARIABLES
  now,            \* Date.now()
  lock,           \* the config table's item for EXECUTION_MUTEX_KEY, or NoLock
  pc,             \* where each instance's handler is
  deadline,       \* the time at which context.getRemainingTimeInMillis() is 0
  acqNow,         \* the Date.now() the instance's put request carries
  putResult,      \* how the store settled the instance's put
  rateHits,       \* the module's rateHits array
  lastHeartbeat,  \* the module's lastHeartbeat (NoBeat for false)
  hbCaller,       \* which heartbeat is being sent: initial, periodic, final
  WaitTimeSeconds,      \* pollQueue's WaitTimeSeconds
  MaxNumberOfMessages,  \* pollQueue's MaxNumberOfMessages
  since,          \* when the pending receive or wait(POLL_DELAY) was issued
  messages,       \* the number of messages of the batch being dispatched
  invokes,        \* the invocation requests issued for the batch, by item
  overrun,        \* history: some instance has held the lock past its expiry
  hitLog,         \* history: when this run recorded each of its rate-limit hits
  steps,          \* history: the milestones the latest run has passed
  calls,          \* history: this run's last two maybeSendHeartbeatMetrics calls
  attempted,      \* history: when the latest heartbeat emission was attempted
  observed        \* the instances whose runs these three histories record

vars == <<now, lock, pc, deadline, acqNow, putResult, rateHits, lastHeartbeat,
          hbCaller, WaitTimeSeconds, MaxNumberOfMessages, since, messages,
          invokes, overrun, hitLog, steps, calls, attempted, observed>>

\* the history variables
history == <<overrun, hitLog>>
log == <<steps, observed>>
trace == <<log, calls, attempted>>

\* the variables of one run's pollQueue call
pollVars == <<WaitTimeSeconds, MaxNumberOfMessages, since, messages, invokes>>

NoLock == [value |-> -1, by |-> "none"]
NoBeat == -1

\* Math.floor(context.getRemainingTimeInMillis() / 1000)
RemainingMillis(p) == deadline[p] - now
RemainingSeconds(p) == RemainingMillis(p) \div MillisPerSecond

Min(a, b) == IF a <= b THEN a ELSE b

\* a variant: the Item's value without the TTL
LockItemNoTtl(p, t) == [value |-> t, by |-> p]

\* the Item of acquireExecutionLock's put
LockItem(p, t) == [value |-> t + EXECUTION_MUTEX_TTL, by |-> p]

\* a variant: the put without its ConditionExpression
PutUnconditional(item, value) == TRUE

\* a variant: "#value <= :value"
ExpiryInclusive(item, value) == item = NoLock \/ item.value <= value

\* "#key <> :key OR (#key = :key AND #value < :value)" on the stored item;
\* a missing item has no key attribute, so the first disjunct holds
ConditionExpression(item, value) == item = NoLock \/ item.value < value

\* a variant: item >= rateWindowStart
SlideWindowInclusive(hits, t) ==
  SelectSeq(hits, LAMBDA item : item >= t - RATE_PERIOD)

\* rateHits.filter(item => item > rateWindowStart)
SlideWindow(hits, t) == SelectSeq(hits, LAMBDA item : item > t - RATE_PERIOD)

\* a variant: the hits in the window are not subtracted
CapacityIgnoresHits(hits) == RATE_LIMIT

\* RATE_LIMIT - rateHits.length
Capacity(hits) == RATE_LIMIT - Len(hits)

\* a variant: a sequential loop that has issued only the first item's request
IssueFirstOnly(n) == [i \in 1..1 |-> "pending"]

\* a variant: one hit for the batch, not one for each message
PushHitPerBatch(hits, n, t) == hits \o <<t>>

\* messages.map(async message => ...): every callback runs to its first
\* await at once, pushing a hit (line 197) and issuing the item's
\* Lambda.invoke (lines 200-205); message bodies are valid JSON
PushHits(hits, n, t) == hits \o [i \in 1..n |-> t]
IssueInvocations(n) == [i \in 1..n |-> "pending"]

\* the instance holds the mutex: its put succeeded and its delete is not applied
Holding(p) ==
  \/ pc[p] = "acqResp" /\ putResult[p] = "ok"
  \/ pc[p] \in {"hbUrl", "hbAttrs", "hbPublish"} /\ hbCaller[p] # "final"
  \/ pc[p] \in {"loop", "poll", "pqUrl", "pqReceive", "pqInvoke", "maybeHb",
                "sleep", "release"}

----------------------------------------------------------------------------
Init ==
  /\ now = 0
  /\ lock = NoLock
  /\ pc = [p \in Procs |-> "idle"]
  /\ deadline = [p \in Procs |-> 0]
  /\ acqNow = [p \in Procs |-> 0]
  /\ putResult = [p \in Procs |-> "none"]
  /\ rateHits = [p \in Procs |-> <<>>]
  /\ lastHeartbeat = [p \in Procs |-> NoBeat]
  /\ hbCaller = [p \in Procs |-> "none"]
  /\ WaitTimeSeconds = [p \in Procs |-> 0]
  /\ MaxNumberOfMessages = [p \in Procs |-> 0]
  /\ since = [p \in Procs |-> 0]
  /\ messages = [p \in Procs |-> 0]
  /\ invokes = [p \in Procs |-> <<>>]
  /\ overrun = FALSE
  /\ hitLog = [p \in Procs |-> <<>>]
  /\ steps = [p \in Procs |-> {}]
  /\ calls = [p \in Procs |-> <<>>]
  /\ attempted = [p \in Procs |-> NoBeat]
  /\ observed = {}

----------------------------------------------------------------------------
(* Helpers of the actions *)

Set(f, p, v) == [f EXCEPT ![p] = v]

\* pollQueue's locals go out of scope
ResetPoll(p) ==
  /\ WaitTimeSeconds' = Set(WaitTimeSeconds, p, 0)
  /\ MaxNumberOfMessages' = Set(MaxNumberOfMessages, p, 0)
  /\ since' = Set(since, p, 0)
  /\ messages' = Set(messages, p, 0)
  /\ invokes' = Set(invokes, p, <<>>)

\* the invocation ends; the module's rateHits and lastHeartbeat stay behind
Exit(p, how) ==
  /\ pc' = Set(pc, p, how)
  /\ deadline' = Set(deadline, p, 0)
  /\ acqNow' = Set(acqNow, p, 0)
  /\ putResult' = Set(putResult, p, "none")
  /\ hbCaller' = Set(hbCaller, p, "none")
  /\ hitLog' = Set(hitLog, p, <<>>)
  /\ calls' = Set(calls, p, <<>>)
  /\ ResetPoll(p)

\* the handler returns: its promise resolves
Return(p) == Exit(p, "idle")

\* a rejection that no catch block takes: the handler's promise rejects
Throw(p) == Exit(p, "thrown")

\* a variant: the final heartbeat outside its try block
CaughtButFinal(site) == site # "final"

\* the awaited calls that stand in a try block with a catch: lines 21-26,
\* 29-33, 38-46, 48-52, 60-65, 68-72
Caught(site) ==
  site \in {"acquire", "initial", "poll", "periodic", "release", "final"}

\* the run passes a milestone
Pass(p, milestones) ==
  /\ steps' = IF p \in observed THEN Set(steps, p, steps[p] \cup milestones)
              ELSE steps
  /\ UNCHANGED observed

\* a variant: only the periodic heartbeat writes lastHeartbeat
StampPeriodicOnly(last, caller, t) == IF caller = "periodic" THEN t ELSE last

\* line 121: lastHeartbeat = Date.now(), before the first await
HeartbeatStamp(last, caller, t) == t

\* sendHeartbeatMetrics up to its first await: lines 120-124
SendHeartbeat(p, caller) ==
  /\ lastHeartbeat' =
       Set(lastHeartbeat, p, HeartbeatStamp(lastHeartbeat[p], caller, now))
  /\ hbCaller' = Set(hbCaller, p, caller)
  /\ pc' = Set(pc, p, "hbUrl")
  /\ attempted' = IF p \in observed THEN Set(attempted, p, now) ELSE attempted
  /\ Pass(p, CASE caller = "initial" -> {"hbInitial"}
              [] caller = "final" -> {"hbFinal"}
              [] OTHER -> {})

\* the latest maybeSendHeartbeatMetrics call and the one before it
Record(p, call) ==
  calls' = IF p \notin observed THEN calls
           ELSE Set(calls, p, IF calls[p] = <<>> THEN <<call>>
                              ELSE <<calls[p][Len(calls[p])], call>>)

\* the periodic heartbeat settles: its publish is made, or a call failed
Settle(p, outcome) ==
  IF hbCaller[p] = "periodic" /\ p \in observed
  THEN calls' = Set(calls, p, [calls[p] EXCEPT ![Len(calls[p])].pub = outcome])
  ELSE UNCHANGED calls

\* wait(POLL_DELAY) is issued: lines 54-55
StartWait(p) ==
  /\ pc' = Set(pc, p, "sleep")
  /\ since' = Set(since, p, now)

----------------------------------------------------------------------------
(* The clock *)

\* some instance holds the mutex later than the expiry time it wrote
PastExpiry == \E p \in Procs : Holding(p) /\ now > acqNow[p] + EXECUTION_MUTEX_TTL

\* the history variable: only the clock and a put that succeeds can set it
Track == overrun' = (overrun \/ PastExpiry')

Tick ==
  /\ now < MaxTime
  /\ now' = now + 1
  /\ UNCHANGED <<lock, pc, hitLog, deadline, acqNow, putResult, rateHits,
                 lastHeartbeat, hbCaller, pollVars, trace>>
  /\ Track

----------------------------------------------------------------------------
(* handler, lines 14-26: reset the module state, issue the conditional put *)

\* the new run's history: what the invocation before it left in the module
Leftovers(p) ==
  IF p \notin observed THEN {}
  ELSE (IF rateHits[p] # <<>> THEN {"staleHits"} ELSE {})
         \cup (IF lastHeartbeat[p] # NoBeat THEN {"staleBeat"} ELSE {})

\* a variant: the handler without lines 18-19
StartKeepsState(p) ==
  /\ pc[p] \in {"idle", "thrown"}
  /\ deadline' = Set(deadline, p, now + TimeoutMillis)
  /\ acqNow' = Set(acqNow, p, now)
  /\ pc' = Set(pc, p, "acquire")
  /\ steps' = Set(steps, p, Leftovers(p))
  /\ attempted' = Set(attempted, p, NoBeat)
  /\ UNCHANGED <<now, lock, history, putResult, hbCaller, pollVars, calls,
                 observed, rateHits, lastHeartbeat>>

Start(p) ==
  /\ pc[p] \in {"idle", "thrown"}
  /\ rateHits' = Set(rateHits, p, <<>>)
  /\ lastHeartbeat' = Set(lastHeartbeat, p, NoBeat)
  /\ deadline' = Set(deadline, p, now + TimeoutMillis)
  /\ acqNow' = Set(acqNow, p, now)
  /\ pc' = Set(pc, p, "acquire")
  /\ steps' = Set(steps, p, Leftovers(p))
  /\ attempted' = Set(attempted, p, NoBeat)
  /\ UNCHANGED <<now, lock, history, putResult, hbCaller, pollVars, calls,
                 observed>>

\* the store applies the put: the condition holds
AcquireOk(p) ==
  /\ pc[p] = "acquire"
  /\ ConditionExpression(lock, acqNow[p])
  /\ lock' = LockItem(p, acqNow[p])
  /\ putResult' = Set(putResult, p, "ok")
  /\ pc' = Set(pc, p, "acqResp")
  /\ Pass(p, {"acquired"})
  /\ UNCHANGED <<now, hitLog, deadline, acqNow, rateHits, lastHeartbeat,
                 hbCaller, pollVars, calls, attempted>>
  /\ Track

\* the store rejects the put: ConditionalCheckFailedException
AcquireRejected(p) ==
  /\ pc[p] = "acquire"
  /\ ~ConditionExpression(lock, acqNow[p])
  /\ putResult' = Set(putResult, p, "rejected")
  /\ pc' = Set(pc, p, "acqResp")
  /\ UNCHANGED <<now, lock, history, deadline, acqNow, rateHits, lastHeartbeat,
                 hbCaller, pollVars, trace>>

\* the put fails before the store applies it
AcquireError(p) ==
  /\ pc[p] = "acquire"
  /\ putResult' = Set(putResult, p, "error")
  /\ pc' = Set(pc, p, "acqResp")
  /\ UNCHANGED <<now, lock, history, deadline, acqNow, rateHits, lastHeartbeat,
                 hbCaller, pollVars, trace>>

\* a variant: the put is not awaited
AcquireResumedEarly(p) ==
  /\ pc[p] = "acquire"
  /\ SendHeartbeat(p, "initial")
  /\ UNCHANGED <<now, lock, history, deadline, acqNow, putResult, rateHits,
                 pollVars, calls>>

\* lines 27-30: the put resolved, the initial heartbeat starts
AcquireResumed(p) ==
  /\ pc[p] = "acqResp"
  /\ putResult[p] = "ok"
  /\ putResult' = Set(putResult, p, "none")
  /\ SendHeartbeat(p, "initial")
  /\ UNCHANGED <<now, lock, history, deadline, acqNow, rateHits, pollVars,
                 calls>>

\* a variant: the catch does not return, the run goes on without the mutex
AcquireFailedOpen(p) ==
  /\ pc[p] = "acqResp"
  /\ putResult[p] \in {"rejected", "error"}
  /\ putResult' = Set(putResult, p, "none")
  /\ SendHeartbeat(p, "initial")
  /\ UNCHANGED <<now, lock, history, deadline, acqNow, rateHits, pollVars,
                 calls>>

\* lines 23-26: the put rejected, the handler returns
AcquireFailed(p) ==
  /\ pc[p] = "acqResp"
  /\ putResult[p] \in {"rejected", "error"}
  /\ IF Caught("acquire") THEN Return(p) ELSE Throw(p)
  /\ UNCHANGED <<now, lock, overrun, rateHits, lastHeartbeat, log, attempted>>

----------------------------------------------------------------------------
(* sendHeartbeatMetrics, lines 116-143: getQueueUrl, getQueueAttributes,     *)
(* Metrics.pollerHeartbeat; the caller's try/catch swallows a failure        *)

\* the handler goes on after a heartbeat, sent or failed: lines 35, 54, 73
HeartbeatReturn(p, outcome) ==
  CASE hbCaller[p] = "initial" ->
         /\ pc' = Set(pc, p, "loop")
         /\ hbCaller' = Set(hbCaller, p, "none")
         /\ UNCHANGED <<hitLog, deadline, acqNow, putResult, pollVars, calls>>
    [] hbCaller[p] = "periodic" ->
         /\ StartWait(p)
         /\ hbCaller' = Set(hbCaller, p, "none")
         /\ Settle(p, outcome)
         /\ UNCHANGED <<hitLog, deadline, acqNow, putResult, WaitTimeSeconds,
                        MaxNumberOfMessages, messages, invokes>>
    [] OTHER -> Return(p)

\* lines 122-124: getQueueUrl resolved, getQueueAttributes is issued
HbUrlOk(p) ==
  /\ pc[p] = "hbUrl"
  /\ pc' = Set(pc, p, "hbAttrs")
  /\ UNCHANGED <<now, lock, history, deadline, acqNow, putResult, rateHits,
                 lastHeartbeat, hbCaller, pollVars, trace>>

\* lines 125-142: the depth is read, Metrics.pollerHeartbeat is issued
HbAttrsOk(p) ==
  /\ pc[p] = "hbAttrs"
  /\ pc' = Set(pc, p, "hbPublish")
  /\ UNCHANGED <<now, lock, history, deadline, acqNow, putResult, rateHits,
                 lastHeartbeat, hbCaller, pollVars, trace>>

\* the publish is made
HbPublishOk(p) ==
  /\ pc[p] = "hbPublish"
  /\ HeartbeatReturn(p, "published")
  /\ UNCHANGED <<now, lock, overrun, rateHits, lastHeartbeat, log, attempted>>

\* a variant: the catch of a failed heartbeat returns from the handler
HbFailReturns(p) ==
  /\ pc[p] \in {"hbUrl", "hbAttrs", "hbPublish"}
  /\ Return(p)
  /\ UNCHANGED <<now, lock, overrun, rateHits, lastHeartbeat, log, attempted>>

\* one of the three calls rejects: the catch of lines 31-33, 50-52 or 70-72
HbFail(p) ==
  /\ pc[p] \in {"hbUrl", "hbAttrs", "hbPublish"}
  /\ IF Caught(hbCaller[p]) THEN HeartbeatReturn(p, "failed") ELSE Throw(p)
  /\ UNCHANGED <<now, lock, overrun, rateHits, lastHeartbeat, log, attempted>>

----------------------------------------------------------------------------
(* handler, lines 37-58: the poll loop *)

\* the while test of line 37; out of time, the loop exits and line 61
\* issues the delete
LoopCheck(p) ==
  /\ pc[p] = "loop"
  /\ IF RemainingSeconds(p) >= 1
     THEN /\ pc' = Set(pc, p, "poll")
          /\ UNCHANGED log
     ELSE /\ pc' = Set(pc, p, "release")
          /\ Pass(p, {"exited"})
  /\ UNCHANGED <<now, lock, history, deadline, acqNow, putResult, rateHits,
                 lastHeartbeat, hbCaller, pollVars, calls, attempted>>

\* pollQueue, lines 152-174: the wait time, the rate window, the capacity
PollStart(p) ==
  /\ pc[p] = "poll"
  /\ LET wait == Min(MAX_LONG_POLL_PERIOD, RemainingSeconds(p))
         hits == SlideWindow(rateHits[p], now)
     IN  IF wait <= 0
         THEN /\ pc' = Set(pc, p, "maybeHb")
              /\ UNCHANGED <<rateHits, pollVars>>
         ELSE /\ rateHits' = Set(rateHits, p, hits)
              /\ IF Capacity(hits) <= 0
                 THEN /\ pc' = Set(pc, p, "maybeHb")
                      /\ UNCHANGED pollVars
                 ELSE /\ pc' = Set(pc, p, "pqUrl")
                      /\ WaitTimeSeconds' = Set(WaitTimeSeconds, p, wait)
                      /\ MaxNumberOfMessages' =
                           Set(MaxNumberOfMessages, p, Capacity(hits))
                      /\ UNCHANGED <<since, messages, invokes>>
  /\ UNCHANGED <<now, lock, history, deadline, acqNow, putResult, lastHeartbeat,
                 hbCaller, trace>>

\* lines 172-180: getQueueUrl resolved, receiveMessage is issued
PqUrlOk(p) ==
  /\ pc[p] = "pqUrl"
  /\ pc' = Set(pc, p, "pqReceive")
  /\ since' = Set(since, p, now)
  /\ UNCHANGED <<now, lock, history, deadline, acqNow, putResult, rateHits,
                 lastHeartbeat, hbCaller, WaitTimeSeconds, MaxNumberOfMessages,
                 messages, invokes, trace>>

\* a variant: the catch of lines 43-46 without its return
PollFailContinues(p) ==
  /\ pc[p] \in {"pqUrl", "pqReceive"}
  /\ pc' = Set(pc, p, "maybeHb")
  /\ ResetPoll(p)
  /\ Pass(p, {"fatal"})
  /\ UNCHANGED <<now, lock, history, deadline, acqNow, putResult, rateHits,
                 lastHeartbeat, hbCaller, calls, attempted>>

\* getQueueUrl or receiveMessage rejected: pollQueue throws, lines 43-46
PollFail(p) ==
  /\ pc[p] \in {"pqUrl", "pqReceive"}
  /\ IF Caught("poll") THEN Return(p) ELSE Throw(p)
  /\ Pass(p, {"fatal"})
  /\ UNCHANGED <<now, lock, overrun, rateHits, lastHeartbeat, attempted>>

\* lines 184-185: the long poll ran out with no message
ReceiveEmpty(p) ==
  /\ pc[p] = "pqReceive"
  /\ now >= since[p] + WaitTimeSeconds[p] * MillisPerSecond
  /\ pc' = Set(pc, p, "maybeHb")
  /\ ResetPoll(p)
  /\ UNCHANGED <<now, lock, history, deadline, acqNow, putResult, rateHits,
                 lastHeartbeat, hbCaller, trace>>

\* lines 184-205: n messages received; each is counted and its worker invoked
ReceiveOk(p, n) ==
  /\ pc[p] = "pqReceive"
  /\ rateHits' = Set(rateHits, p, PushHits(rateHits[p], n, now))
  /\ messages' = Set(messages, p, n)
  /\ invokes' = Set(invokes, p, IssueInvocations(n))
  /\ hitLog' = Set(hitLog, p, hitLog[p] \o [i \in 1..n |-> now])
  /\ pc' = Set(pc, p, "pqInvoke")
  /\ UNCHANGED <<now, lock, overrun, deadline, acqNow, putResult, lastHeartbeat,
                 hbCaller, WaitTimeSeconds, MaxNumberOfMessages, since, trace>>

\* an invocation request is accepted; Promise.all resolves with the last one
InvokeOk(p, i) ==
  /\ pc[p] = "pqInvoke"
  /\ invokes[p][i] = "pending"
  /\ LET settled == [invokes[p] EXCEPT ![i] = "ok"]
     IN  IF \A j \in DOMAIN settled : settled[j] = "ok"
         THEN /\ pc' = Set(pc, p, "maybeHb")
              /\ ResetPoll(p)
         ELSE /\ invokes' = Set(invokes, p, settled)
              /\ UNCHANGED <<pc, WaitTimeSeconds, MaxNumberOfMessages, since,
                             messages>>
  /\ UNCHANGED <<now, lock, history, deadline, acqNow, putResult, rateHits,
                 lastHeartbeat, hbCaller, trace>>

\* an invocation request is rejected: Promise.all rejects, lines 43-46
InvokeFail(p, i) ==
  /\ pc[p] = "pqInvoke"
  /\ invokes[p][i] = "pending"
  /\ IF Caught("poll") THEN Return(p) ELSE Throw(p)
  /\ Pass(p, {"fatal"})
  /\ UNCHANGED <<now, lock, overrun, rateHits, lastHeartbeat, attempted>>

\* a variant: the period compared the wrong way round
ThrottledLate(last, t) == last # NoBeat /\ t - last > MIN_HEARTBEAT_PERIOD

\* lines 106-109: lastHeartbeat !== false &&
\* Date.now() - lastHeartbeat < constants.MIN_HEARTBEAT_PERIOD
Throttled(last, t) == last # NoBeat /\ t - last < MIN_HEARTBEAT_PERIOD

\* maybeSendHeartbeatMetrics, lines 105-114, and line 55 when it skips
MaybeHeartbeat(p) ==
  /\ pc[p] = "maybeHb"
  /\ IF Throttled(lastHeartbeat[p], now)
     THEN /\ StartWait(p)
          /\ Record(p, [at |-> now, pub |-> "skipped"])
          /\ UNCHANGED <<lastHeartbeat, hbCaller, log, attempted>>
     ELSE /\ SendHeartbeat(p, "periodic")
          /\ Record(p, [at |-> now, pub |-> "pending"])
          /\ UNCHANGED since
  /\ UNCHANGED <<now, lock, history, deadline, acqNow, putResult, rateHits,
                 WaitTimeSeconds, MaxNumberOfMessages, messages, invokes>>

\* wait(POLL_DELAY) resolved: back to the while test
SleepDone(p) ==
  /\ pc[p] = "sleep"
  /\ now >= since[p] + POLL_DELAY
  /\ pc' = Set(pc, p, "loop")
  /\ since' = Set(since, p, 0)
  /\ UNCHANGED <<now, lock, history, deadline, acqNow, putResult, rateHits,
                 lastHeartbeat, hbCaller, WaitTimeSeconds, MaxNumberOfMessages,
                 messages, invokes, trace>>

----------------------------------------------------------------------------
(* handler, lines 60-72: release the mutex, final heartbeat *)

\* the store applies the delete
ReleaseOk(p) ==
  /\ pc[p] = "release"
  /\ lock' = NoLock
  /\ pc' = Set(pc, p, "relResp")
  /\ UNCHANGED <<now, history, deadline, acqNow, putResult, rateHits,
                 lastHeartbeat, hbCaller, pollVars, trace>>

\* the delete fails: lines 62-65, the handler returns
ReleaseError(p) ==
  /\ pc[p] = "release"
  /\ IF Caught("release") THEN Return(p) ELSE Throw(p)
  /\ Pass(p, {"releaseFailed"})
  /\ UNCHANGED <<now, lock, overrun, rateHits, lastHeartbeat, attempted>>

\* lines 66-69: the delete resolved, the final heartbeat starts
ReleaseResumed(p) ==
  /\ pc[p] = "relResp"
  /\ SendHeartbeat(p, "final")
  /\ UNCHANGED <<now, lock, history, deadline, acqNow, putResult, rateHits,
                 pollVars, calls>>

----------------------------------------------------------------------------
(* The specification *)

Next ==
  \/ Tick
  \/ \E p \in Procs :
       \/ Start(p)
       \/ AcquireOk(p)
       \/ AcquireRejected(p)
       \/ AcquireError(p)
       \/ AcquireResumed(p)
       \/ AcquireFailed(p)
       \/ HbUrlOk(p)
       \/ HbAttrsOk(p)
       \/ HbPublishOk(p)
       \/ HbFail(p)
       \/ LoopCheck(p)
       \/ PollStart(p)
       \/ PqUrlOk(p)
       \/ PollFail(p)
       \/ ReceiveEmpty(p)
       \/ \E n \in 1..MaxNumberOfMessages[p] : ReceiveOk(p, n)
       \/ \E i \in DOMAIN invokes[p] : InvokeOk(p, i)
       \/ \E i \in DOMAIN invokes[p] : InvokeFail(p, i)
       \/ MaybeHeartbeat(p)
       \/ SleepDone(p)
       \/ ReleaseOk(p)
       \/ ReleaseError(p)
       \/ ReleaseResumed(p)

Spec == Init /\ [][Next]_vars

\* one instance alone, its run recorded in steps, calls and attempted; the
\* other container is never invoked
InitObserved ==
  /\ now = 0
  /\ lock = NoLock
  /\ pc = [p \in Procs |-> IF p = "p1" THEN "idle" ELSE "off"]
  /\ deadline = [p \in Procs |-> 0]
  /\ acqNow = [p \in Procs |-> 0]
  /\ putResult = [p \in Procs |-> "none"]
  /\ rateHits = [p \in Procs |-> <<>>]
  /\ lastHeartbeat = [p \in Procs |-> NoBeat]
  /\ hbCaller = [p \in Procs |-> "none"]
  /\ WaitTimeSeconds = [p \in Procs |-> 0]
  /\ MaxNumberOfMessages = [p \in Procs |-> 0]
  /\ since = [p \in Procs |-> 0]
  /\ messages = [p \in Procs |-> 0]
  /\ invokes = [p \in Procs |-> <<>>]
  /\ overrun = FALSE
  /\ hitLog = [p \in Procs |-> <<>>]
  /\ steps = [p \in Procs |-> {}]
  /\ calls = [p \in Procs |-> <<>>]
  /\ attempted = [p \in Procs |-> NoBeat]
  /\ observed = {"p1"}

SpecObserved == InitObserved /\ [][Next]_vars

----------------------------------------------------------------------------
(* Properties of the execution mutex *)

\* the step settles p's conditional put by its condition, not by an error
PutEvaluated(p) ==
  pc[p] = "acquire" /\ pc'[p] = "acqResp" /\ putResult'[p] # "error"

\* the record p's put writes when it succeeds
Written(p) == [value |-> acqNow[p] + EXECUTION_MUTEX_TTL, by |-> p]

\* C1: two instances attempt the acquire concurrently.  While both requests
\* are in flight and the store holds no record that is valid at the time the
\* first one carries, the first put the store evaluates succeeds; the second,
\* evaluated while the first one's record stands and has not expired at the
\* time the second carries, is rejected and changes nothing.  So exactly one
\* of the two succeeds, whichever is evaluated first.
C1_ExactlyOneAcquires ==
  [][\A p \in Procs : \A q \in Procs \ {p} :
       /\ ( /\ PutEvaluated(p)
            /\ pc[q] = "acquire"
            /\ (lock = NoLock \/ lock.value < acqNow[p]) )
          => (putResult'[p] = "ok" /\ lock' = Written(p))
       /\ ( /\ PutEvaluated(p)
            /\ pc[q] = "acqResp" /\ putResult[q] = "ok"
            /\ lock = Written(q)
            /\ acqNow[p] <= lock.value )
          => (putResult'[p] = "rejected" /\ lock' = lock)
    ]_vars

\* both puts are settled and neither handler has resumed; the put issued
\* first was evaluated second and lost
C1_Witness ==
  \E p \in Procs : \E q \in Procs \ {p} :
     /\ pc[p] = "acqResp" /\ putResult[p] = "ok"
     /\ pc[q] = "acqResp" /\ putResult[q] = "rejected"
     /\ acqNow[q] < acqNow[p]
     /\ lock = Written(p)

\* C2: as long as no instance has held the mutex past the expiry time it
\* wrote, at most one instance is between its successful acquire and its
\* release.
C2_MutualExclusion ==
  ~overrun => \A p \in Procs : \A q \in Procs \ {p} : ~(Holding(p) /\ Holding(q))

\* one instance dispatches a batch while the other's put has been rejected
C2_Witness ==
  \E p \in Procs : \E q \in Procs \ {p} :
     /\ ~overrun
     /\ pc[p] = "pqInvoke"
     /\ pc[q] = "acqResp" /\ putResult[q] = "rejected"

\* C3: a put that finds a record whose expiry is strictly less than the time
\* it carries succeeds and overwrites the record; a put that finds a record
\* whose expiry is greater than or equal to that time is rejected and leaves
\* the record as it is.
C3_SelfHeal ==
  [][\A p \in Procs :
       (PutEvaluated(p) /\ lock # NoLock) =>
          IF lock.value < acqNow[p]
          THEN putResult'[p] = "ok" /\ lock' = Written(p)
          ELSE putResult'[p] = "rejected" /\ lock' = lock
    ]_vars

\* p's put has replaced the expired record of q, which never released it
C3_Witness ==
  \E p \in Procs : \E q \in Procs \ {p} :
     /\ pc[p] = "acqResp" /\ putResult[p] = "ok" /\ lock = Written(p)
     /\ Holding(q)
     /\ acqNow[q] + EXECUTION_MUTEX_TTL < acqNow[p]

----------------------------------------------------------------------------
(* Properties of the rate limiter *)

\* the hits of instance p recorded in the half-open window (t - RATE_PERIOD, t]
HitsInWindow(p, t) ==
  Cardinality({i \in DOMAIN hitLog[p] :
                 hitLog[p][i] > t - RATE_PERIOD /\ hitLog[p][i] <= t})

\* C4: within one handler run, for every time t the number of hits recorded
\* in (t - RATE_PERIOD, t] never exceeds RATE_LIMIT.
C4_RateBound ==
  \A p \in Procs : \A t \in 0..now : HitsInWindow(p, t) <= RATE_LIMIT

\* a run has recorded more hits than RATE_LIMIT, over more than one window,
\* and the window that ends now is full
C4_Witness ==
  \E p \in Procs :
     /\ Len(hitLog[p]) > RATE_LIMIT
     /\ HitsInWindow(p, now) = RATE_LIMIT

\* the hits of the module's array that lie in the window that ends now
StillInWindow(p) ==
  Cardinality({i \in DOMAIN rateHits[p] : rateHits[p][i] > now - RATE_PERIOD})

\* C8: when pollQueue finds RATE_LIMIT or more hits in the window it issues
\* neither the queue lookup nor the receive and records nothing: the handler
\* goes on to the heartbeat check.  When there is capacity, the lookup is
\* issued, and the receive that follows asks for exactly RATE_LIMIT minus the
\* number of hits still in the window.
C8_RateLimitYield ==
  [][\A p \in Procs :
       /\ ( /\ pc[p] = "poll" /\ pc'[p] # "poll"
            /\ Min(MAX_LONG_POLL_PERIOD, RemainingSeconds(p)) >= 1 )
          => IF StillInWindow(p) >= RATE_LIMIT
             THEN /\ pc'[p] = "maybeHb"
                  /\ hitLog'[p] = hitLog[p]
                  /\ MaxNumberOfMessages'[p] = 0
             ELSE /\ pc'[p] = "pqUrl"
                  /\ MaxNumberOfMessages'[p] = RATE_LIMIT - StillInWindow(p)
       /\ (pc[p] = "pqUrl" /\ pc'[p] = "pqReceive")
          => /\ MaxNumberOfMessages'[p] = RATE_LIMIT - Len(rateHits[p])
             /\ MaxNumberOfMessages'[p] >= 1
    ]_vars

\* a receive is in flight that asks for less than RATE_LIMIT, one hit being
\* still in the window
C8_Witness ==
  \E p \in Procs :
     /\ pc[p] = "pqReceive"
     /\ Len(rateHits[p]) = 1
     /\ MaxNumberOfMessages[p] = RATE_LIMIT - 1

----------------------------------------------------------------------------
(* Properties of the poll loop *)

\* C5: when a failed lookup, receive or invocation request ends the poll
\* loop, the handler attempts the release before it returns: no step takes
\* an instance from inside pollQueue straight to its return.
C5_ReleaseAfterLoopError ==
  [][\A p \in Procs :
       pc[p] \in {"pqUrl", "pqReceive", "pqInvoke"} => pc'[p] # "idle"]_vars

\* C6: the loop exits before the remaining budget reaches zero (no awaited
\* call of the loop body is pending with no time left), and no receive is
\* issued with a zero or negative wait.
C6_ExitsBeforeBudgetEnds ==
  \A p \in Procs :
     /\ pc[p] \in {"pqUrl", "pqReceive", "pqInvoke", "sleep"}
          => RemainingMillis(p) > 0
     /\ pc[p] = "pqReceive" => WaitTimeSeconds[p] >= 1

\* C7: every receive carries a wait of 1 to MAX_LONG_POLL_PERIOD seconds
\* that, when the receive is issued, is not longer than the remaining budget.
C7_WaitWithinBudget ==
  \A p \in Procs :
     pc[p] = "pqReceive" =>
        /\ 1 <= WaitTimeSeconds[p]
        /\ WaitTimeSeconds[p] <= MAX_LONG_POLL_PERIOD
        /\ WaitTimeSeconds[p] * MillisPerSecond <= deadline[p] - since[p]

\* C9: while a batch of N items is being dispatched, N invocation requests
\* have been issued, one per item, whatever the requests of the other items
\* have come to; so a request that fails finds every other one issued.
C9_FanOut ==
  \A p \in Procs :
     pc[p] = "pqInvoke" =>
        /\ messages[p] >= 1
        /\ DOMAIN invokes[p] = 1..messages[p]
        /\ \A i \in 1..messages[p] : invokes[p][i] \in {"pending", "ok"}

\* of a batch of two the second request is accepted before the first
C9_Witness ==
  \E p \in Procs :
     /\ pc[p] = "pqInvoke"
     /\ messages[p] = 2
     /\ invokes[p] = <<"pending", "ok">>

\* C10: a put that is rejected or fails leaves the lock record as it is, and
\* the handler's next step is its return: no heartbeat is sent, nothing is
\* received or dispatched, no delete is issued.
C10_FailClosed ==
  [][\A p \in Procs :
       /\ ( /\ pc[p] = "acquire" /\ pc'[p] = "acqResp"
            /\ putResult'[p] \in {"rejected", "error"} )
          => lock' = lock
       /\ ( /\ pc[p] = "acqResp" /\ putResult[p] \in {"rejected", "error"}
            /\ pc'[p] # pc[p] )
          => /\ pc'[p] = "idle"
             /\ lock' = lock
             /\ lastHeartbeat'[p] = NoBeat
             /\ rateHits'[p] = <<>> /\ hitLog'[p] = <<>>
    ]_vars

\* the put of q is rejected while p holds a record that has not expired
C10_Witness ==
  \E p \in Procs : \E q \in Procs \ {p} :
     /\ Holding(p) /\ lock = Written(p) /\ lock.value >= now
     /\ pc[q] = "acqResp" /\ putResult[q] = "rejected"

----------------------------------------------------------------------------
(* Properties of the heartbeats; they are checked on SpecObserved *)

\* the run has made two maybeSendHeartbeatMetrics calls and both are settled
Pair(p) == Len(calls[p]) = 2 /\ calls[p][2].pub # "pending"
Gap(p) == calls[p][2].at - calls[p][1].at
Publishes(p) == Cardinality({i \in 1..2 : calls[p][i].pub = "published"})
NoneFailed(p) == \A i \in 1..2 : calls[p][i].pub # "failed"

\* C11 as stated: of any two consecutive maybeSendHeartbeatMetrics calls
\* whose external calls succeed, exactly one publishes when they are less
\* than MIN_HEARTBEAT_PERIOD apart, and both publish when they are more than
\* MIN_HEARTBEAT_PERIOD apart.
C11_AnyPair ==
  \A p \in Procs :
     Pair(p) /\ NoneFailed(p) =>
        /\ Gap(p) < MIN_HEARTBEAT_PERIOD => Publishes(p) = 1
        /\ Gap(p) > MIN_HEARTBEAT_PERIOD => Publishes(p) = 2

\* C11, amended: of two consecutive maybeSendHeartbeatMetrics calls of which
\* the first emits, the second is skipped when it comes less than
\* MIN_HEARTBEAT_PERIOD after the first, so that exactly one publish is made
\* when the first one's calls succeed; the second emits too when it comes
\* more than MIN_HEARTBEAT_PERIOD after the first, so that two publishes are
\* made when the calls of both succeed.
C11_ThrottledPair ==
  \A p \in Procs :
     Pair(p) /\ calls[p][1].pub # "skipped" =>
        /\ Gap(p) < MIN_HEARTBEAT_PERIOD =>
             /\ calls[p][2].pub = "skipped"
             /\ calls[p][1].pub = "published" => Publishes(p) = 1
        /\ Gap(p) > MIN_HEARTBEAT_PERIOD =>
             /\ calls[p][2].pub # "skipped"
             /\ NoneFailed(p) => Publishes(p) = 2

\* the first call publishes and the second, in the same period, is skipped
C11_Witness ==
  \E p \in Procs :
     /\ Pair(p) /\ Gap(p) < MIN_HEARTBEAT_PERIOD
     /\ calls[p][1].pub = "published" /\ calls[p][2].pub = "skipped"

\* two calls more than MIN_HEARTBEAT_PERIOD apart, both published
C11_WitnessApart ==
  \E p \in Procs :
     /\ Pair(p) /\ Gap(p) > MIN_HEARTBEAT_PERIOD
     /\ Publishes(p) = 2

----------------------------------------------------------------------------
(* Properties of the handler's run; they are checked on SpecObserved *)

\* C12: the handler's promise never rejects: whatever call fails, and on
\* lock contention and on time-budget exhaustion, the invocation ends by
\* returning.
C12_NeverThrows == \A p \in Procs : pc[p] # "thrown"

\* the delete failed after the loop had run out of time, and the handler
\* has returned
C12_Witness ==
  \E p \in Procs :
     /\ pc[p] = "idle"
     /\ {"acquired", "exited", "releaseFailed"} \subseteq steps[p]

\* the only hits of the run are the two of one batch, and they are recorded
MinuteUsed(p) ==
  /\ Len(hitLog[p]) = 2 /\ hitLog[p][1] = hitLog[p][2]
  /\ rateHits[p] = hitLog[p]

\* C13: with RATE_LIMIT = 2, a first receive that returns 2 items issues two
\* invocation requests and records 2 hits; an iteration that starts less
\* than RATE_PERIOD after those hits issues no lookup and no receive; one
\* that starts RATE_PERIOD or more after them, with a second or more of the
\* time budget left, prunes them and goes on to a receive of at most 2.
C13_MinuteScenario ==
  [][\A p \in Procs :
       /\ ( /\ pc[p] = "pqReceive" /\ pc'[p] = "pqInvoke"
            /\ hitLog[p] = <<>> /\ messages'[p] = 2 )
          => /\ rateHits'[p] = <<now, now>>
             /\ invokes'[p] = <<"pending", "pending">>
             /\ Capacity(rateHits'[p]) = 0
       /\ ( pc[p] = "poll" /\ pc'[p] # "poll" /\ MinuteUsed(p) )
          => IF now - hitLog[p][1] < RATE_PERIOD
             THEN /\ pc'[p] = "maybeHb"
                  /\ MaxNumberOfMessages'[p] = 0
             ELSE RemainingSeconds(p) >= 1
                    => /\ rateHits'[p] = <<>>
                       /\ pc'[p] = "pqUrl"
                       /\ MaxNumberOfMessages'[p] = RATE_LIMIT
    ]_vars

\* RATE_PERIOD after a batch of two, the receive is issued again for two
C13_Witness ==
  \E p \in Procs :
     /\ pc[p] = "pqReceive" /\ MaxNumberOfMessages[p] = RATE_LIMIT
     /\ rateHits[p] = <<>>
     /\ Len(hitLog[p]) = 2 /\ hitLog[p][1] = hitLog[p][2]
     /\ now = hitLog[p][1] + RATE_PERIOD

\* the instance takes a step that adds the milestone to its run
Passes(p, milestone) == milestone \in steps'[p] \ steps[p]

\* C14: a run goes acquire, initial heartbeat, iterations, release, final
\* heartbeat: the initial heartbeat starts when the put has succeeded, no
\* iteration starts before it, a receive or an invocation request is issued
\* only by a run that has acquired and has not issued its delete, the delete
\* is issued only by the loop's exit, and the final heartbeat starts when
\* the delete has resolved and is followed by the return alone.
C14_RunOrder ==
  [][\A p \in observed :
       /\ Passes(p, "hbInitial")
          => /\ "acquired" \in steps[p]
             /\ pc[p] = "acqResp" /\ hbCaller'[p] = "initial"
       /\ pc'[p] = "poll" /\ pc[p] # "poll"
          => /\ {"acquired", "hbInitial"} \subseteq steps[p]
             /\ "exited" \notin steps[p]
       /\ pc'[p] \in {"pqReceive", "pqInvoke"} /\ pc'[p] # pc[p]
          => /\ {"acquired", "hbInitial"} \subseteq steps[p]
             /\ "exited" \notin steps[p]
       /\ pc'[p] = "release" /\ pc[p] # "release"
          => /\ pc[p] = "loop" /\ RemainingSeconds(p) < 1
             /\ {"acquired", "hbInitial"} \subseteq steps[p]
             /\ Passes(p, "exited")
       /\ Passes(p, "hbFinal")
          => /\ {"acquired", "hbInitial", "exited"} \subseteq steps[p]
             /\ pc[p] = "relResp" /\ hbCaller'[p] = "final"
       /\ "hbFinal" \in steps[p] /\ pc[p] # "idle" /\ pc'[p] # pc[p]
          => pc'[p] \in {"hbAttrs", "hbPublish", "idle"}
    ]_vars

\* a run that has dispatched messages is sending its final heartbeat
C14_Witness ==
  \E p \in observed :
     /\ pc[p] = "hbPublish" /\ hbCaller[p] = "final"
     /\ {"acquired", "hbInitial", "exited", "hbFinal"} \subseteq steps[p]
     /\ hitLog[p] # <<>>

\* C15: when the lookup, the receive or an invocation request of an
\* iteration has failed, the run is over: the handler has returned, so it
\* issues no further receive, starts no further iteration and does not sleep.
C15_FatalStopsLoop ==
  \A p \in observed : "fatal" \in steps[p] => pc[p] = "idle"

\* one of two invocation requests failed, the handler has returned and the
\* lock record it wrote is still there
C15_Witness ==
  \E p \in observed :
     /\ "fatal" \in steps[p] /\ pc[p] = "idle"
     /\ Len(rateHits[p]) = 2
     /\ lock.by = p

\* the instance is in one of sendHeartbeatMetrics' three awaited calls and
\* takes a step that is not the issue of the next call: the call failed, or
\* the publish was made
HeartbeatEnds(p) ==
  /\ pc[p] \in {"hbUrl", "hbAttrs", "hbPublish"}
  /\ pc'[p] # pc[p]
  /\ ~(pc[p] = "hbUrl" /\ pc'[p] = "hbAttrs")
  /\ ~(pc[p] = "hbAttrs" /\ pc'[p] = "hbPublish")

\* C16: however a heartbeat ends, by a failed lookup, depth query or publish
\* as much as by a publish that is made, the run goes on as it would have:
\* from the initial heartbeat to the loop's test, from a periodic heartbeat
\* to the sleep and from there to the loop's test, and from the final
\* heartbeat to the handler's return.
C16_HeartbeatBestEffort ==
  [][\A p \in Procs :
       /\ HeartbeatEnds(p)
          => CASE hbCaller[p] = "initial" -> pc'[p] = "loop"
               [] hbCaller[p] = "periodic" ->
                    pc'[p] = "sleep" /\ since'[p] = now
               [] OTHER -> pc'[p] = "idle"
       /\ pc[p] = "sleep" /\ pc'[p] # pc[p] => pc'[p] = "loop"
    ]_vars

\* a periodic heartbeat failed and the next iteration has issued its receive
C16_Witness ==
  \E p \in observed :
     /\ calls[p] # <<>> /\ calls[p][Len(calls[p])].pub = "failed"
     /\ pc[p] = "pqReceive"

\* C17: a run that acquired the lock and has returned has attempted the
\* initial heartbeat and the final heartbeat, whichever way it ended: with
\* the time budget used up, by a fatal error of the loop or by a failed
\* delete.
C17_Bracketed ==
  \A p \in observed :
     pc[p] = "idle" /\ "acquired" \in steps[p]
        => {"hbInitial", "hbFinal"} \subseteq steps[p]

\* the part of C17 that is about the initial heartbeat: it is attempted as
\* soon as the put has resolved
C17_InitialAttempted ==
  \A p \in observed :
     "acquired" \in steps[p] /\ ~(pc[p] = "acqResp" /\ putResult[p] = "ok")
        => "hbInitial" \in steps[p]

\* the part of C17 that is about a run ending with the time budget used up
\* and the delete resolved
C17_FinalAfterRelease ==
  \A p \in observed :
     /\ pc[p] = "idle"
     /\ "exited" \in steps[p] /\ "releaseFailed" \notin steps[p]
     => "hbFinal" \in steps[p]

\* the run is under way and has not attempted a heartbeat of its own
BeforeFirstBeat(p) == pc[p] \notin {"idle", "off"} /\ "hbInitial" \notin steps[p]

\* the run is under way and has not recorded a hit of its own
BeforeFirstHit(p) == pc[p] \notin {"idle", "off"} /\ hitLog[p] = <<>>

----------------------------------------------------------------------------
(* Properties of the release; they are checked on Spec *)

\* the store applies the delete of p
Deletes(p) == pc[p] = "release" /\ pc'[p] = "relResp"

\* C19 as stated: in every interleaving, an overrun included, the delete of
\* an instance never removes a record that another instance wrote, that has
\* not expired and whose writer is still running under it.
C19_ReleaseOwnRecord ==
  [][\A p \in Procs :
       Deletes(p) =>
          ~\E q \in Procs \ {p} :
              lock = Written(q) /\ lock.value >= now /\ Holding(q)
    ]_vars

\* C19, amended: as long as no instance has held the lock past the expiry it
\* wrote, the delete of an instance removes the record that this instance
\* wrote, and no other.
C19_ReleaseWithoutOverrun ==
  [][\A p \in Procs : Deletes(p) /\ ~overrun => lock = Written(p)]_vars

\* an instance has deleted its record within its TTL while the other one
\* is about to issue its put
C19_Witness ==
  \E p \in Procs : \E q \in Procs \ {p} :
     /\ pc[p] = "relResp" /\ lock = NoLock /\ ~overrun
     /\ now <= acqNow[p] + EXECUTION_MUTEX_TTL
     /\ pc[q] = "acquire"

----------------------------------------------------------------------------
(* Properties of the heartbeat timestamp; they are checked on SpecObserved *)

\* the instance starts a heartbeat emission: sendHeartbeatMetrics is entered
Emits(p) == pc'[p] = "hbUrl" /\ pc[p] # "hbUrl"

\* the instance's maybeSendHeartbeatMetrics call returns without emitting
Skips(p) ==
  /\ pc[p] = "maybeHb" /\ pc'[p] = "sleep"
  /\ lastHeartbeat'[p] = lastHeartbeat[p]

\* C20: every emission attempt, initial, periodic or final, writes the
\* current time to lastHeartbeat, and no failure of its calls takes that
\* back; so a maybeSendHeartbeatMetrics call made less than
\* MIN_HEARTBEAT_PERIOD after the latest attempt, failed or not, is skipped:
\* no lookup, no depth query and no publish is issued.
C20_StampOnAttempt ==
  [][\A p \in observed :
       /\ Emits(p) => lastHeartbeat'[p] = now
       /\ pc[p] \in {"hbUrl", "hbAttrs", "hbPublish"}
          => lastHeartbeat'[p] = lastHeartbeat[p]
       /\ ( /\ pc[p] = "maybeHb" /\ pc'[p] # pc[p]
            /\ attempted[p] # NoBeat
            /\ now - attempted[p] < MIN_HEARTBEAT_PERIOD )
          => Skips(p)
    ]_vars

\* a periodic heartbeat failed, and the next maybeSendHeartbeatMetrics call,
\* in the same period, has been skipped
C20_Witness ==
  \E p \in observed :
     /\ Len(calls[p]) = 2
     /\ calls[p][1].pub = "failed" /\ calls[p][2].pub = "skipped"
     /\ calls[p][2].at - attempted[p] < MIN_HEARTBEAT_PERIOD
     /\ pc[p] = "sleep"

\* the run's first maybeSendHeartbeatMetrics call, in the period of the
\* initial heartbeat, has been skipped
C20_WitnessInitial ==
  \E p \in observed :
     /\ Len(calls[p]) = 1 /\ calls[p][1].pub = "skipped"
     /\ calls[p][1].at - attempted[p] < MIN_HEARTBEAT_PERIOD
     /\ pc[p] = "sleep"

=============================================================================
